---- MODULE Spec2Model ----
(***************************************************************************)
(* Model of static/app.js: the client-side chat wiring.  The state is the  *)
(* DOM the script owns (input field, message list, typing indicator), the  *)
(* console, the requests handed to fetch and one record per sendMessage    *)
(* invocation that got past the empty-input guard.  One action per event   *)
(* the event loop can deliver: an event handler or the continuation of an  *)
(* await runs to its next suspension point without interleaving.           *)
(***************************************************************************)
EXTENDS Integers, Sequences, FiniteSets, TLC

VARIABLES input, focused, messages, owner, typing, console, requests,
          sends, loaded, lastEvent

vars == <<input, focused, messages, owner, typing, console, requests,
          sends, loaded, lastEvent>>

(***************************************************************************)
(* Bounds and input alphabets.                                             *)
(***************************************************************************)
\* Number of sendMessage invocations that may pass the empty-input guard.
MaxSends == 2

\* Values the user can leave in the input field: empty, whitespace only, and
\* a text with whitespace around it.
Inputs == {"", " ", " hi\t"}

\* HTTP statuses the backend may answer with.
Statuses == {200, 404, 500}

\* Keys delivered to the keydown handler.
Keys == {"Enter", "a"}

(***************************************************************************)
(* JavaScript values: tagged so that values of different types compare.    *)
(***************************************************************************)
Undefined == [t |-> "undefined"]
Null == [t |-> "null"]
Str(s) == [t |-> "string", v |-> s]
Num(n) == [t |-> "number", v |-> n]
Obj(f) == [t |-> "object", v |-> f]
EmptyObject == Obj([name \in {} |-> Undefined])

\* ToBoolean, as used by ?:, && and ||.
Truthy(x) ==
  CASE x.t = "undefined" -> FALSE
    [] x.t = "null" -> FALSE
    [] x.t = "string" -> x.v # ""
    [] x.t = "number" -> x.v # 0
    [] x.t = "object" -> TRUE

\* a && b and a || b on already evaluated operands.
JsAnd(a, b) == IF Truthy(a) THEN b ELSE a
JsOr(a, b) == IF Truthy(a) THEN a ELSE b

\* Mutant: property reads are null-safe (data?.intent), so nothing throws.
PropNeverThrows(x) == FALSE

\* Reading x.name throws TypeError exactly when x is null or undefined.
PropThrows(x) == x.t \in {"undefined", "null"}
GetProp(x, name) ==
  IF x.t = "object" /\ name \in DOMAIN x.v THEN x.v[name] ELSE Undefined

\* ToString, as applied by the textContent setter and template literals.
JsToString(x) ==
  CASE x.t = "undefined" -> "undefined"
    [] x.t = "null" -> "null"
    [] x.t = "string" -> x.v
    [] x.t = "number" -> ToString(x.v)
    [] x.t = "object" -> "[object Object]"

(***************************************************************************)
(* String.prototype.trim on the input value.                               *)
(***************************************************************************)
IsSpace(c) == c \in {" ", "\t"}

RECURSIVE TrimStart(_)
TrimStart(s) ==
  IF Len(s) > 0 /\ IsSpace(SubSeq(s, 1, 1))
  THEN TrimStart(SubSeq(s, 2, Len(s)))
  ELSE s

RECURSIVE TrimEnd(_)
TrimEnd(s) ==
  IF Len(s) > 0 /\ IsSpace(SubSeq(s, Len(s), Len(s)))
  THEN TrimEnd(SubSeq(s, 1, Len(s) - 1))
  ELSE s

\* Mutant: only the leading white space is removed.
TrimStartOnly(s) == TrimStart(s)

\* Mutant: the input value is used without trimming it.
TrimOmitted(s) == s

Trim(s) == TrimEnd(TrimStart(s))

(***************************************************************************)
(* Response bodies.  A body either fails to parse (resp.json() rejects) or *)
(* parses to a JavaScript value.                                           *)
(***************************************************************************)
Unparseable == [parses |-> FALSE]
Json(d) == [parses |-> TRUE, data |-> d]

Bodies ==
  { Unparseable,
    Json(Null),
    Json(Obj([response |-> Str("hi"), intent |-> Str("greet"), confidence |-> Num(1)])),
    Json(Obj([response |-> Str("")])),
    Json(EmptyObject),
    Json(Obj([intent |-> Str("greet"), confidence |-> Num(1)])) }

\* Response.ok: the status is in the range 200-299.
RespOk(status) == status >= 200 /\ status <= 299

(***************************************************************************)
(* Fixed texts of the script.                                              *)
(***************************************************************************)
FallbackText == "I'm sorry, I couldn't process that."
NetworkErrorText == "Network error: failed to reach the server."
GreetingText == "Hi, I'm the Vibeathon bot! You can ask me about joining or registration, event dates and costs, collaborations, social media, GitHub, contact info, current projects, or even provide feedback."
ServerErrorText(status) == "Server error (" \o ToString(status) \o ")"

ErrorMeta == Obj([intent |-> Str("error"), confidence |-> Num(0)])
GreetingMeta == Obj([intent |-> Str("greeting"), confidence |-> Num(1)])

(***************************************************************************)
(* The view: the part of the state appendMessage and showTyping write.     *)
(* owner is a history sequence parallel to messages: the send a message    *)
(* was appended for, 0 for the load handler.                               *)
(***************************************************************************)
View == [messages |-> messages, owner |-> owner, typing |-> typing, console |-> console]

\* Mutant: the container's content is replaced by the new message.
appendMessageReplaces(v, text, isBot, meta, sid) ==
  [v EXCEPT
     !.messages = <<[sender |-> IF isBot THEN "bot" ELSE "user",
                     text |-> JsToString(text)]>>,
     !.owner = <<sid>>,
     !.console = IF Truthy(meta)
                 THEN Append(@, [level |-> "log",
                                 intent |-> GetProp(meta, "intent"),
                                 confidence |-> GetProp(meta, "confidence")])
                 ELSE @]

\* Mutant: the new message is inserted before the first child.
appendMessagePrepends(v, text, isBot, meta, sid) ==
  [v EXCEPT
     !.messages = <<[sender |-> IF isBot THEN "bot" ELSE "user",
                     text |-> JsToString(text)]>> \o @,
     !.owner = <<sid>> \o @,
     !.console = IF Truthy(meta)
                 THEN Append(@, [level |-> "log",
                                 intent |-> GetProp(meta, "intent"),
                                 confidence |-> GetProp(meta, "confidence")])
                 ELSE @]

appendMessage(v, text, isBot, meta, sid) ==
  [v EXCEPT
     !.messages = Append(@, [sender |-> IF isBot THEN "bot" ELSE "user",
                             text |-> JsToString(text)]),
     !.owner = Append(@, sid),
     !.console = IF Truthy(meta)
                 THEN Append(@, [level |-> "log",
                                 intent |-> GetProp(meta, "intent"),
                                 confidence |-> GetProp(meta, "confidence")])
                 ELSE @]

showTyping(v, show) ==
  [v EXCEPT !.typing = [display |-> IF show THEN "block" ELSE "none",
                        ariaHidden |-> IF show THEN "false" ELSE "true"]]

consoleError(v) == [v EXCEPT !.console = Append(@, [level |-> "error"])]

(***************************************************************************)
(* JSON.stringify({message: value}): the request body.                     *)
(***************************************************************************)
JsonEscapeChar(c) ==
  CASE c = "\"" -> "\\\""
    [] c = "\\" -> "\\\\"
    [] c = "\t" -> "\\t"
    [] OTHER -> c

RECURSIVE JsonEscape(_)
JsonEscape(s) ==
  IF Len(s) = 0 THEN ""
  ELSE JsonEscapeChar(SubSeq(s, 1, 1)) \o JsonEscape(SubSeq(s, 2, Len(s)))

JsonStringifyMessage(value) == "{\"message\":\"" \o JsonEscape(value) \o "\"}"

\* Mutant: the options object names no method, so fetch issues a GET.
FetchRequestNoMethod(value) ==
  [url |-> "/chat", method |-> "GET", contentType |-> "application/json",
   body |-> JsonStringifyMessage(value)]

FetchRequest(value) ==
  [url |-> "/chat", method |-> "POST", contentType |-> "application/json",
   body |-> JsonStringifyMessage(value)]

(***************************************************************************)
(* The body of sendMessage after its first await.  A frame is the view     *)
(* together with the completion of the block that just ran: "normal",      *)
(* "return", "throw", or "await" when the function suspended again.        *)
(***************************************************************************)
Frame(v, c) == [view |-> v, completion |-> c]

\* What fetch settled with.
Rejected == [settled |-> "rejected"]
Response(status) == [settled |-> "fulfilled", status |-> status]
NoBody == [none |-> TRUE]

\* Mutant: the `return` after the server-error message is missing, so the
\* function goes on to read the body.
TryAfterFetchNoReturn(v, sid, resp) ==
  IF resp.settled = "rejected" THEN Frame(v, "throw")
  ELSE IF ~RespOk(resp.status)
       THEN Frame(appendMessage(v, Str(ServerErrorText(resp.status)), TRUE, ErrorMeta, sid),
                  "await")
       ELSE Frame(v, "await")

\* try block, from the resumption of `await fetch(...)` to `await resp.json()`.
TryAfterFetch(v, sid, resp) ==
  IF resp.settled = "rejected" THEN Frame(v, "throw")
  ELSE IF ~RespOk(resp.status)
       THEN Frame(appendMessage(v, Str(ServerErrorText(resp.status)), TRUE, ErrorMeta, sid),
                  "return")
       ELSE Frame(v, "await")

\* Mutant: the branches of the conditional are swapped.
BotTextSwapped(data) ==
  IF Truthy(JsAnd(data, IF Truthy(data) THEN GetProp(data, "response") ELSE data))
  THEN Str(FallbackText)
  ELSE GetProp(data, "response")

\* Mutant: data.response is rendered without a fallback.
BotTextNoFallback(data) == GetProp(data, "response")

\* data && data.response ? data.response : "I'm sorry, ..."
BotText(data) ==
  IF Truthy(JsAnd(data, IF Truthy(data) THEN GetProp(data, "response") ELSE data))
  THEN GetProp(data, "response")
  ELSE Str(FallbackText)

\* {intent: data.intent || 'unknown', confidence: data.confidence || 0}
ReplyMeta(data) ==
  Obj([intent |-> JsOr(GetProp(data, "intent"), Str("unknown")),
       confidence |-> JsOr(GetProp(data, "confidence"), Num(0))])

\* Mutant: the reply is appended before data.intent is read, so that a null
\* body leaves a reply behind and then throws.
TryAfterJsonAppendsFirst(v, sid, body) ==
  IF ~body.parses THEN Frame(v, "throw")
  ELSE IF PropThrows(body.data)
       THEN Frame(appendMessage(v, BotText(body.data), TRUE, Undefined, sid), "throw")
       ELSE Frame(appendMessage(v, BotText(body.data), TRUE, ReplyMeta(body.data), sid),
                  "normal")

\* try block, from the resumption of `await resp.json()` to its end.
TryAfterJson(v, sid, body) ==
  IF ~body.parses THEN Frame(v, "throw")
  ELSE IF PropThrows(body.data) THEN Frame(v, "throw")
       ELSE Frame(appendMessage(v, BotText(body.data), TRUE, ReplyMeta(body.data), sid),
                  "normal")

\* Mutant: the handler logs the error and appends no message.
CatchLogsOnly(f, sid) ==
  IF f.completion = "throw" THEN Frame(consoleError(f.view), "normal") ELSE f

\* Mutant: the handler reports the error and throws it again.
CatchRethrows(f, sid) ==
  IF f.completion = "throw"
  THEN Frame(consoleError(appendMessage(f.view, Str(NetworkErrorText), TRUE, ErrorMeta, sid)),
             "throw")
  ELSE f

\* catch(err){ ... }
Catch(f, sid) ==
  IF f.completion = "throw"
  THEN Frame(consoleError(appendMessage(f.view, Str(NetworkErrorText), TRUE, ErrorMeta, sid)),
             "normal")
  ELSE f

\* Mutant: showTyping(false) placed after the try statement instead of in
\* a finally block, so that the early return skips it.
FinallyAfterTry(f) ==
  IF f.completion = "normal" THEN Frame(showTyping(f.view, FALSE), f.completion) ELSE f

\* finally{ showTyping(false); }
Finally(f) ==
  IF f.completion = "await" THEN f
  ELSE Frame(showTyping(f.view, FALSE), f.completion)

\* The state of the promise sendMessage returned, after a frame.
PromiseAfter(f) ==
  CASE f.completion = "await" -> "pending"
    [] f.completion = "throw" -> "rejected"
    [] OTHER -> "fulfilled"

PcAfter(f) == IF f.completion = "await" THEN "json" ELSE "done"

SetView(v) ==
  /\ messages' = v.messages
  /\ owner' = v.owner
  /\ typing' = v.typing
  /\ console' = v.console

\* What the last click or keydown handler did: whether it called
\* preventDefault, how often it called sendMessage, and the state of the
\* promise that call returned when the handler ended.
Event(prevented, calls, returned) ==
  [defaultPrevented |-> prevented, calls |-> calls, returned |-> returned]

(***************************************************************************)
(* sendMessage up to its first await, called from an event handler.        *)
(***************************************************************************)
sendMessage ==
  LET value == Trim(input)
      sid == Len(sends) + 1
  IN IF value = ""
     THEN /\ lastEvent' = Event(TRUE, 1, "fulfilled")
          /\ UNCHANGED <<input, focused, messages, owner, typing, console, requests, sends>>
     ELSE /\ Len(sends) < MaxSends
          /\ SetView(showTyping(appendMessage(View, Str(value), FALSE, Undefined, sid), TRUE))
          /\ input' = ""
          /\ focused' = TRUE
          /\ requests' = Append(requests, FetchRequest(value))
          /\ sends' = Append(sends, [value |-> value, pc |-> "fetch", promise |-> "pending",
                                     resp |-> NoBody, body |-> NoBody])
          /\ lastEvent' = Event(TRUE, 1, "pending")

Init ==
  /\ input = ""
  /\ focused = FALSE
  /\ messages = <<>>
  /\ owner = <<>>
  /\ typing = [display |-> "none", ariaHidden |-> "true"]
  /\ console = <<>>
  /\ requests = <<>>
  /\ sends = <<>>
  /\ loaded = FALSE
  /\ lastEvent = Event(FALSE, 0, "none")

\* The user edits the input field.
Edit(v) ==
  /\ v # input
  /\ input' = v
  /\ focused' = TRUE
  /\ UNCHANGED <<lastEvent, messages, owner, typing, console, requests, sends, loaded>>

\* sendBtn click handler.
Click ==
  /\ sendMessage
  /\ UNCHANGED loaded

\* Mutant: the handler does not look at the Shift modifier.
KeydownIgnoresShift(key, shiftKey) ==
  /\ IF key = "Enter"
     THEN sendMessage
     ELSE /\ lastEvent' = Event(FALSE, 0, "none")
          /\ UNCHANGED <<input, focused, messages, owner, typing, console, requests, sends>>
  /\ UNCHANGED loaded

\* input keydown handler.
Keydown(key, shiftKey) ==
  /\ IF key = "Enter" /\ ~shiftKey
     THEN sendMessage
     ELSE /\ lastEvent' = Event(FALSE, 0, "none")
          /\ UNCHANGED <<input, focused, messages, owner, typing, console, requests, sends>>
  /\ UNCHANGED loaded

\* Mutant: the greeting is appended without looking at the list.
LoadUnguarded ==
  /\ ~loaded
  /\ loaded' = TRUE
  /\ SetView(appendMessage(View, Str(GreetingText), TRUE, GreetingMeta, 0))
  /\ UNCHANGED <<lastEvent, input, focused, requests, sends>>

\* DOMContentLoaded handler; the event fires once per document.
Load ==
  /\ ~loaded
  /\ loaded' = TRUE
  /\ IF Len(messages) = 0
     THEN SetView(appendMessage(View, Str(GreetingText), TRUE, GreetingMeta, 0))
     ELSE UNCHANGED <<messages, owner, typing, console>>
  /\ UNCHANGED lastEvent
  /\ UNCHANGED <<input, focused, requests, sends>>

\* The continuation of send i runs with what its awaited promise settled with.
Resume(i, f, resp, body) ==
  /\ SetView(f.view)
  /\ sends' = [sends EXCEPT ![i] = [value |-> @.value, pc |-> PcAfter(f),
                                    promise |-> PromiseAfter(f),
                                    resp |-> resp, body |-> body]]
  /\ UNCHANGED <<input, focused, requests, loaded>>

\* fetch resolves with a Response of the given status.
FetchResolve(i, status) ==
  /\ i \in DOMAIN sends
  /\ sends[i].pc = "fetch"
  /\ Resume(i, Finally(Catch(TryAfterFetch(View, i, Response(status)), i)),
            Response(status), NoBody)
  /\ UNCHANGED lastEvent

\* fetch rejects: the request never completed.
FetchReject(i) ==
  /\ i \in DOMAIN sends
  /\ sends[i].pc = "fetch"
  /\ Resume(i, Finally(Catch(TryAfterFetch(View, i, Rejected), i)), Rejected, NoBody)
  /\ UNCHANGED lastEvent

\* resp.json() settles: the body was read and parsed, or failed to parse.
JsonSettle(i, body) ==
  /\ i \in DOMAIN sends
  /\ sends[i].pc = "json"
  /\ Resume(i, Finally(Catch(TryAfterJson(View, i, body), i)), sends[i].resp, body)
  /\ UNCHANGED lastEvent

Next ==
  \/ \E v \in Inputs : Edit(v)
  \/ Click
  \/ \E key \in Keys, shiftKey \in BOOLEAN : Keydown(key, shiftKey)
  \/ Load
  \/ \E i \in 1..MaxSends, status \in Statuses : FetchResolve(i, status)
  \/ \E i \in 1..MaxSends : FetchReject(i)
  \/ \E i \in 1..MaxSends, body \in Bodies : JsonSettle(i, body)

Spec == Init /\ [][Next]_vars

\* The network settles every request and every body read it has started:
\* the promise a send awaits does not stay pending for ever.
FairSpec ==
  /\ Spec
  /\ \A i \in 1..MaxSends :
       WF_vars(\/ FetchReject(i)
               \/ \E status \in Statuses : FetchResolve(i, status)
               \/ \E body \in Bodies : JsonSettle(i, body))

(***************************************************************************)
(* Vocabulary of the properties.                                           *)
(***************************************************************************)
Started == DOMAIN sends
Done(i) == sends[i].pc = "done"
InFlight(i) == sends[i].pc # "done"

\* Positions in the list of the messages appended for send i.
UserIdx(i) == {k \in DOMAIN messages : owner[k] = i /\ messages[k].sender = "user"}
BotIdx(i) == {k \in DOMAIN messages : owner[k] = i /\ messages[k].sender = "bot"}
BotTexts(i) == {messages[k].text : k \in BotIdx(i)}

TypingVisible == typing.display = "block" /\ typing.ariaHidden = "false"
TypingHidden == typing.display = "none" /\ typing.ariaHidden = "true"

\* The paths a concluded send took.
FetchRejected(i) == sends[i].resp = Rejected
HttpError(i) == sends[i].resp # Rejected /\ sends[i].resp # NoBody
                /\ (sends[i].resp.status < 200 \/ sends[i].resp.status > 299)
BodyRead(i) == sends[i].body # NoBody
ParsedObject(i) == BodyRead(i) /\ sends[i].body.parses /\ sends[i].body.data.t = "object"
HasResponse(i) == ParsedObject(i) /\ "response" \in DOMAIN sends[i].body.data.v

\* s occurs in text.
Contains(text, s) ==
  \E k \in 1..(Len(text) - Len(s) + 1) : SubSeq(text, k, k + Len(s) - 1) = s

\* The value holds no character other than white space.
Blank(s) == \A k \in 1..Len(s) : SubSeq(s, k, k) \in {" ", "\t"}

\* A started send has one user message, and one bot message once concluded.
C1OneReply ==
  \A i \in Started :
    /\ Cardinality(UserIdx(i)) = 1
    /\ Cardinality(BotIdx(i)) = IF Done(i) THEN 1 ELSE 0

C2Claim ==
  Len(sends) > 0 => (TypingVisible <=> \E i \in Started : InFlight(i))

\* With sends started and none in flight the indicator is hidden.
C3Quiescent ==
  (Len(sends) > 0 /\ \A i \in Started : Done(i)) => TypingHidden

\* A step that concludes a send ends with the indicator hidden.
C3Concludes ==
  \A i \in Started : (InFlight(i) /\ sends'[i].pc = "done") => TypingHidden'

(***************************************************************************)
(* C3.  The step that concludes a send leaves the typing indicator hidden, *)
(* whatever the exit path; and whenever sends have been started and none   *)
(* is in flight, the indicator is hidden.                                  *)
(***************************************************************************)
C3Thm == []C3Quiescent /\ [][C3Concludes]_vars

\* Both sends concluded, one by the early return on a non-OK status and one
\* by an exception raised while the body was read.
C3Witness ==
  /\ Len(sends) = 2
  /\ Done(1) /\ HttpError(1)
  /\ Done(2) /\ BodyRead(2) /\ ~ParsedObject(2)
  /\ TypingHidden

(***************************************************************************)
(* C4.  A click or an Enter keypress without Shift while the input holds   *)
(* nothing but white space changes neither the message list, nor the       *)
(* requests issued, nor the input value, nor the typing indicator.         *)
(***************************************************************************)
C4Thm ==
  [][(Blank(input) /\ (Click \/ Keydown("Enter", FALSE)))
       => UNCHANGED <<messages, requests, input, typing>>]_vars

\* A trigger has returned early on a whitespace-only input that is still
\* in the field, while a send is in flight and the indicator is shown.
C4Witness ==
  /\ lastEvent = Event(TRUE, 1, "fulfilled")
  /\ input = " "
  /\ Len(sends) = 1 /\ InFlight(1)
  /\ Len(messages) = 1 /\ Len(requests) = 1
  /\ TypingVisible

(***************************************************************************)
(* C5 as stated.  A 2xx reply whose body is an object with a string        *)
(* `response` field, the empty string included, is rendered as the value   *)
(* of that field.                                                          *)
(***************************************************************************)
C5Claim ==
  \A i \in Started :
    (Done(i) /\ HasResponse(i) /\ sends[i].body.data.v.response.t = "string")
      => BotTexts(i) = {sends[i].body.data.v.response.v}

(***************************************************************************)
(* C5 as amended.  A 2xx reply whose body is an object with a string       *)
(* `response` field is rendered as the value of that field when the value  *)
(* is not the empty string, and as the fallback text when it is.           *)
(***************************************************************************)
C5Thm ==
  \A i \in Started :
    (Done(i) /\ HasResponse(i) /\ sends[i].body.data.v.response.t = "string")
      => /\ Cardinality(BotIdx(i)) = 1
         /\ BotTexts(i) = {IF sends[i].body.data.v.response.v # ""
                           THEN sends[i].body.data.v.response.v
                           ELSE "I'm sorry, I couldn't process that."}

\* One reply with a non-empty and one with an empty `response` rendered.
C5Witness ==
  /\ Len(sends) = 2 /\ Done(1) /\ Done(2)
  /\ HasResponse(1) /\ sends[1].body.data.v.response = Str("hi")
  /\ BotTexts(1) = {"hi"}
  /\ HasResponse(2) /\ sends[2].body.data.v.response = Str("")

(***************************************************************************)
(* C6.  A 2xx reply whose body is an object without a `response` field is  *)
(* rendered as one bot message with the fallback text, with or without     *)
(* intent and confidence fields.                                           *)
(***************************************************************************)
C6Thm ==
  \A i \in Started :
    (Done(i) /\ ParsedObject(i) /\ ~HasResponse(i))
      => /\ Cardinality(BotIdx(i)) = 1
         /\ BotTexts(i) = {"I'm sorry, I couldn't process that."}

\* One reply without any field and one with intent and confidence only.
C6Witness ==
  /\ Len(sends) = 2 /\ Done(1) /\ Done(2)
  /\ ParsedObject(1) /\ DOMAIN sends[1].body.data.v = {}
  /\ ParsedObject(2) /\ DOMAIN sends[2].body.data.v = {"intent", "confidence"}
  /\ BotTexts(1) = BotTexts(2)

(***************************************************************************)
(* C7.  A response with a status outside 200-299 concludes the send with   *)
(* one bot message "Server error (<status>)", which contains the status;   *)
(* the body is never read.                                                 *)
(***************************************************************************)
C7Thm ==
  \A i \in Started :
    HttpError(i)
      => /\ Done(i)
         /\ ~BodyRead(i)
         /\ Cardinality(BotIdx(i)) = 1
         /\ BotTexts(i) = {"Server error (" \o ToString(sends[i].resp.status) \o ")"}
         /\ \A t \in BotTexts(i) : Contains(t, ToString(sends[i].resp.status))
         /\ sends[i].resp.status = 500 => BotTexts(i) = {"Server error (500)"}

\* Both error statuses of the alphabet answered.
C7Witness ==
  /\ Len(sends) = 2
  /\ HttpError(1) /\ sends[1].resp.status = 500
  /\ HttpError(2) /\ sends[2].resp.status = 404
  /\ BotTexts(2) = {"Server error (404)"}

(***************************************************************************)
(* C8.  A rejected fetch concludes the send with one bot message, the      *)
(* network-error text, and no other bot message.                           *)
(***************************************************************************)
C8Thm ==
  \A i \in Started :
    FetchRejected(i)
      => /\ Done(i)
         /\ Cardinality(BotIdx(i)) = 1
         /\ BotTexts(i) = {"Network error: failed to reach the server."}

\* A rejected fetch while another send is still in flight.
C8Witness ==
  /\ Len(sends) = 2
  /\ FetchRejected(2) /\ Cardinality(BotIdx(2)) = 1
  /\ InFlight(1)

\* No promise returned by sendMessage is rejected.
C9Settled ==
  /\ lastEvent.returned # "rejected"
  /\ \A i \in Started :
       sends[i].promise = IF Done(i) THEN "fulfilled" ELSE "pending"

\* A concluded send is not resumed and gets no further reply.
C9Terminal ==
  \A i \in Started : Done(i) => (sends'[i] = sends[i] /\ BotIdx(i)' = BotIdx(i))

(***************************************************************************)
(* C9.  The promise sendMessage returned is pending while the send is in   *)
(* flight and fulfilled once it has concluded, never rejected, whatever    *)
(* the network call settled with; a concluded send stays as it concluded.  *)
(***************************************************************************)
C9Thm == []C9Settled /\ [][C9Terminal]_vars

\* One send concluded by a body that does not parse, one by a null body.
C9Witness ==
  /\ Len(sends) = 2
  /\ Done(1) /\ sends[1].body = Unparseable /\ sends[1].promise = "fulfilled"
  /\ Done(2) /\ sends[2].body = Json(Null) /\ sends[2].promise = "fulfilled"

\* The greeting as it is displayed.
Greeting ==
  [sender |-> "bot",
   text |-> "Hi, I'm the Vibeathon bot! You can ask me about joining or registration, event dates and costs, collaborations, social media, GitHub, contact info, current projects, or even provide feedback."]

Greetings == {k \in DOMAIN messages : messages[k] = Greeting}

C10AtMostOne == Cardinality(Greetings) <= 1

C10Load ==
  (~loaded /\ loaded')
    => IF Len(messages) = 0 THEN messages' = <<Greeting>> ELSE messages' = messages

(***************************************************************************)
(* C10.  The load event appends the greeting, and nothing else, when the   *)
(* list is empty and leaves the list alone when it is not; the list never  *)
(* holds more than one greeting.                                           *)
(***************************************************************************)
C10Thm == []C10AtMostOne /\ [][C10Load]_vars

\* The load event fired after a user message was sent: no greeting.
C10Witness ==
  /\ loaded
  /\ Len(messages) >= 2
  /\ messages[1].sender = "user"
  /\ Greetings = {}

\* A click or an Enter keypress without Shift.
Trigger == Click \/ Keydown("Enter", FALSE)

\* A trigger prevents the default action and calls sendMessage once.
C11CallsOnce ==
  Trigger => (lastEvent'.calls = 1 /\ lastEvent'.defaultPrevented)

\* Enter with Shift calls nothing and changes nothing the script owns.
C11ShiftIdle ==
  Keydown("Enter", TRUE)
    => /\ lastEvent'.calls = 0
       /\ UNCHANGED <<input, messages, requests, sends, typing>>

\* A trigger leaves the input blank, only an edit makes a blank input
\* non-blank, and a trigger on a blank input sends nothing: a second trigger
\* with no edit in between adds no message and no request.
C11NoDuplicate ==
  /\ Trigger => Blank(input')
  /\ (Blank(input) /\ ~Blank(input')) => \E v \in Inputs : Edit(v)
  /\ (Blank(input) /\ Trigger)
       => (Len(messages') = Len(messages) /\ Len(requests') = Len(requests))

(***************************************************************************)
(* C11.  Each click and each Enter keypress without Shift calls            *)
(* sendMessage exactly once and Enter with Shift calls nothing; the input  *)
(* is blank after a trigger, so two triggers with no edit between them     *)
(* append at most one user message and issue at most one request.          *)
(***************************************************************************)
C11Thm == [][C11CallsOnce /\ C11ShiftIdle /\ C11NoDuplicate]_vars

\* A trigger returned early right after a send started: the field is still
\* the empty one the send left, with one message and one request.
C11Witness ==
  /\ lastEvent = Event(TRUE, 1, "fulfilled")
  /\ input = ""
  /\ Len(sends) = 1 /\ InFlight(1)
  /\ Len(messages) = 1 /\ messages[1].sender = "user"
  /\ Len(requests) = 1

\* The list after the step is the list before it, or that list with one
\* message added at the end.
C12Step ==
  \/ messages' = messages
  \/ /\ Len(messages') = Len(messages) + 1
     /\ SubSeq(messages', 1, Len(messages)) = messages

(***************************************************************************)
(* C12.  The message list is append-only: every step leaves it unchanged   *)
(* or adds exactly one message at its end; no message already in the list  *)
(* is modified, moved or removed.                                          *)
(***************************************************************************)
C12Thm == [][C12Step]_vars

\* The greeting, two user messages and two replies, all appended in turn.
C12Witness ==
  /\ loaded
  /\ Len(messages) = 5
  /\ messages[1] = Greeting
  /\ Len(sends) = 2 /\ Done(1) /\ Done(2)

(***************************************************************************)
(* C13.  For every send whose request has been issued, its user message is *)
(* in the list and comes before that send's bot reply; and the bot replies *)
(* in the list, the greeting not counted, are never more than the user     *)
(* messages.                                                               *)
(***************************************************************************)
C13Thm ==
  /\ \A i \in 1..Len(requests) :
       /\ i \in Started
       /\ UserIdx(i) # {}
       /\ \A u \in UserIdx(i), b \in BotIdx(i) : u < b
  /\ Cardinality({k \in DOMAIN messages : messages[k].sender = "bot" /\ owner[k] # 0})
       <= Cardinality({k \in DOMAIN messages : messages[k].sender = "user"})

\* Two overlapping sends, both answered, each reply after its user message.
C13Witness ==
  /\ Len(sends) = 2 /\ Done(1) /\ Done(2)
  /\ \E u1 \in UserIdx(1), u2 \in UserIdx(2), b1 \in BotIdx(1), b2 \in BotIdx(2) :
       u1 < u2 /\ u2 < b1 /\ b1 < b2

\* A started send has no reply while in flight and one once concluded.
C14OneEach ==
  \A i \in Started : Cardinality(BotIdx(i)) = IF Done(i) THEN 1 ELSE 0

\* The step in which a send concludes puts that send's reply at the end of
\* the list, whichever sends are still in flight.
C14Resolve ==
  \A i \in Started :
    (InFlight(i) /\ sends'[i].pc = "done")
      => /\ Len(messages') = Len(messages) + 1
         /\ owner'[Len(messages')] = i
         /\ messages'[Len(messages')].sender = "bot"

(***************************************************************************)
(* C14.  With sends overlapping, each send still gets exactly one reply,   *)
(* and a reply is appended by the step in which its request resolves, at   *)
(* the end of the list: replies stand in the order of resolution, not of   *)
(* sending.                                                                *)
(***************************************************************************)
C14Thm == []C14OneEach /\ [][C14Resolve]_vars

\* Both user messages precede both replies, and the reply to the second
\* send stands before the reply to the first.
C14Witness ==
  /\ Len(sends) = 2 /\ Done(1) /\ Done(2)
  /\ \E u1 \in UserIdx(1), u2 \in UserIdx(2), b1 \in BotIdx(1), b2 \in BotIdx(2) :
       u1 < u2 /\ u2 < b2 /\ b2 < b1

\* Requests, started sends and user messages are equally many, and every
\* request is a POST to /chat.
C15Count ==
  /\ Len(requests) = Len(sends)
  /\ Len(requests) = Cardinality({k \in DOMAIN messages : messages[k].sender = "user"})
  /\ \A i \in DOMAIN requests :
       requests[i].url = "/chat" /\ requests[i].method = "POST"

\* Requests are issued one at a time, by a trigger on a non-blank input and
\* by nothing else: no continuation issues a request again.
C15NoRetry ==
  requests' # requests
    => /\ Trigger /\ ~Blank(input)
       /\ Len(requests') = Len(requests) + 1
       /\ SubSeq(requests', 1, Len(requests)) = requests

(***************************************************************************)
(* C15.  Every send with a non-blank input issues exactly one POST /chat   *)
(* request and none is issued again: the requests issued are as many as    *)
(* the user messages, whatever earlier calls ended with.                   *)
(***************************************************************************)
C15Thm == []C15Count /\ [][C15NoRetry]_vars

\* Two sends, one ended by a rejected fetch and one by a 500: two requests.
C15Witness ==
  /\ Len(sends) = 2
  /\ Done(1) /\ FetchRejected(1)
  /\ Done(2) /\ HttpError(2)
  /\ Len(requests) = 2

\* e is raw without its leading and trailing white space.
IsTrimOf(e, raw) ==
  \E a \in 0..Len(raw), b \in 0..Len(raw) :
    /\ a + b <= Len(raw)
    /\ Blank(SubSeq(raw, 1, a))
    /\ Blank(SubSeq(raw, Len(raw) - b + 1, Len(raw)))
    /\ e = SubSeq(raw, a + 1, Len(raw) - b)
    /\ (Len(e) > 0 => (~Blank(SubSeq(e, 1, 1)) /\ ~Blank(SubSeq(e, Len(e), Len(e)))))

\* The step that starts a send echoes the trimmed input, puts it in the
\* request body and empties the input field.
C16Start ==
  Len(sends') = Len(sends) + 1
    => /\ input' = ""
       /\ Len(messages') = Len(messages) + 1
       /\ Len(requests') = Len(requests) + 1
       /\ messages'[Len(messages')].sender = "user"
       /\ IsTrimOf(messages'[Len(messages')].text, input)
       /\ requests'[Len(requests')].body
            = "{\"message\":\"" \o messages'[Len(messages')].text \o "\"}"

\* No step, an edit of the input included, changes a request already
\* issued or a message already echoed.
C16Stable ==
  /\ \A i \in DOMAIN requests : requests'[i] = requests[i]
  /\ \A k \in DOMAIN messages : messages'[k] = messages[k]

\* The request of a send and its echo carry the same text.
C16Same ==
  \A i \in Started :
    /\ i \in DOMAIN requests
    /\ \A u \in UserIdx(i) :
         /\ requests[i].body = "{\"message\":\"" \o messages[u].text \o "\"}"
         /\ messages[u].text = "hi" => requests[i].body = "{\"message\":\"hi\"}"

(***************************************************************************)
(* C16.  The user message and the `message` field of the request body both *)
(* hold the input value, trimmed, as it was when the send started; the     *)
(* input is empty right after the start; what is typed afterwards changes  *)
(* neither the request nor the echoed message.                             *)
(***************************************************************************)
C16Thm == []C16Same /\ [][C16Start /\ C16Stable]_vars

\* While the first send is in flight the user has typed the next text.
C16Witness ==
  /\ Len(sends) = 1 /\ InFlight(1)
  /\ input = " hi\t"
  /\ messages[1] = [sender |-> "user", text |-> "hi"]
  /\ requests[1].body = "{\"message\":\"hi\"}"

\* The body of send i was read and did not parse, or parsed to null.
BadBody(i) ==
  BodyRead(i) /\ (~sends[i].body.parses \/ sends[i].body.data = Null)

\* Such a send has the network-error text as its only bot message.
C17OneError ==
  \A i \in Started :
    BadBody(i)
      => /\ Done(i)
         /\ Cardinality(BotIdx(i)) = 1
         /\ BotTexts(i) = {"Network error: failed to reach the server."}
         /\ "I'm sorry, I couldn't process that." \notin BotTexts(i)

\* The step in which such a body is read leaves the indicator hidden.
C17Hidden ==
  \A i \in Started :
    (InFlight(i) /\ i \in DOMAIN sends' /\ BadBody(i)') => TypingHidden'

(***************************************************************************)
(* C17.  A 2xx response whose body does not parse as JSON, or parses to    *)
(* null, ends in the catch block like a rejected fetch: the send gets      *)
(* exactly one bot message, the network-error text, no fallback message,   *)
(* and the typing indicator is hidden afterwards.                          *)
(***************************************************************************)
C17Thm == []C17OneError /\ [][C17Hidden]_vars

\* A null body and then a body that does not parse, both reported.
C17Witness ==
  /\ Len(sends) = 2
  /\ Done(1) /\ sends[1].body = Json(Null) /\ Cardinality(BotIdx(1)) = 1
  /\ Done(2) /\ sends[2].body = Unparseable /\ Cardinality(BotIdx(2)) = 1
  /\ TypingHidden

====
